---- MODULE Spec2Model ----
(***************************************************************************)
(* Verso's event-loop coordination (src/src/verso.rs): one call to         *)
(* Verso::run is one tick.  The tick is split at the points where the      *)
(* coordinator reads a channel, so that engine threads may enqueue         *)
(* messages between the reads.                                             *)
(***************************************************************************)
EXTENDS Integers, Sequences, FiniteSets, TLC

\* ---------------------------------------------------------------- bounds
MaxTicks    == 4    \* calls to run
MaxCompSent == 2    \* compositor messages sent by engine threads
MaxEmbSent  == 2    \* embedder messages sent by engine threads
MaxWakes    == 3    \* calls to wake by one engine thread
MaxCmds     == 3    \* commands sent to the constellation
MaxReqs     == 2    \* font or canvas requests made by one engine thread

\* ------------------------------------------------------------ value sets
NotShuttingDown      == "NotShuttingDown"
ShuttingDown         == "ShuttingDown"
FinishedShuttingDown == "FinishedShuttingDown"
ShutdownState == {NotShuttingDown, ShuttingDown, FinishedShuttingDown}

\* crate::Status, as used at verso.rs:390, 581, 610, 633-639
Status == {"None", "Animating", "Shutdown"}

\* winit events as handle_winit_event tells them apart (verso.rs:579-593)
Event == {"Suspended", "Resumed", "UserEvent", "CloseRequested",
          "WindowEvent", "Unsupported"}

\* compositor messages: the shutdown acknowledgment and everything else
CompositorMsg == {"ShutdownComplete", "Other"}

\* the content view the window is created with (verso.rs:382), a view no
\* window owns, and the absent identifier of a coordinator-global message
LiveView  == "view1"
StaleView == "view2"
NoView    == "none"

\* engine threads holding a clone of the Waker (verso.rs:98, 144, 154)
Threads == {"compositor_proxy", "embedder_proxy"}

\* commands to the constellation: the one Verso::new sends through
\* send_to_constellation (verso.rs:395-398) and those of
\* handle_window_event (verso.rs:418-433)
SentByNew == {"NewWebView"}
SendingEvents == {"AllowNavigationResponse", "ClearCache"}

\* the requests of WebRenderFontApiCompositorProxy (verso.rs:710-776) and
\* of CanvasWebrenderApi that wait for a reply (verso.rs:781-789)
FontRequests == {"add_font_instance", "add_font", "add_system_font",
                 "forward_add_font_message",
                 "forward_add_font_instance_message"}
Requests == FontRequests \cup {"generate_key"}

\* engine threads holding a clone of one of the two proxies
Callers == {"thread1", "thread2"}

\* embedder message envelopes (optional view identifier, payload)
EmbedderMsg == { <<LiveView, "Close">>, <<LiveView, "Other">>,
                 <<StaleView, "Other">>, <<NoView, "Other">> }

VARIABLES
    alive,            \* the Verso value exists (deinit(self) consumes it)
    pc,               \* position of the event-loop thread inside run
    event,            \* the event passed to the current call to run
    shutdown_state,   \* compositor.shutdown_state
    status,           \* Verso::status
    compositor_q,     \* compositor channel, oldest first
    embedder_q,       \* embedder channel, oldest first; an entry is a message
                      \* with the number of its send
    webview_id,       \* the window's content view, NoView once closed
    animating,        \* what window.is_animating() last reported
    recv_ok,          \* what compositor.receive_messages() returned this tick
    \* ---- observations, written but never read by the program
    ticks,            \* calls to run so far
    comp_sent,        \* compositor messages sent so far
    emb_sent,         \* embedder messages sent so far
    dispatch_states,  \* shutdown states read for messages given to the handler
    taken_states,     \* shutdown states read for messages taken off the channel
    handler_calls,    \* calls to window.handle_servo_message so far
    err_logged,       \* log::error! lines of handle_servo_messages so far
    updates_tick,     \* compositor.perform_updates() calls in this tick
    state_at_step4,   \* shutdown state read by handle_servo_messages2
    closed_tick,      \* the handler returned true in this tick
    state_after_close,\* shutdown state right after the handler returned true
    took_tick,        \* an embedder message was taken in this tick
    dispatch_log,     \* send numbers of the messages given to the handler, in order
    stale_dropped,    \* messages the handler dropped for an unknown view
    comp_start,       \* compositor channel contents when run was called
    start_state,      \* shutdown state when run was called
    comp_taken_tick,  \* compositor messages receive_messages took this tick
    deinit_count,     \* calls to compositor.deinit()
    shutdown_returns, \* calls to run that returned Status::Shutdown
    last_return,      \* what the last call to run returned
    ticks_after_finished, \* calls to run begun in FinishedShuttingDown
    \* ---- the wake bridge (Waker) and the native loop behind it
    loop_exited,      \* the native event loop has exited
    user_events,      \* UserEvent(()) events queued in the native loop
    wake_ticks,       \* calls to run made for a UserEvent
    wake_errors,      \* log::error! lines of Waker::wake
    waker_state,      \* per engine thread: "running" or "panicked"
    wakes_by,         \* per engine thread: calls to wake so far
    \* ---- the command channel to the constellation
    constellation_alive, \* the constellation still holds the receiver
    constellation_q,  \* commands delivered to the constellation
    cmds_issued,      \* commands the coordinator set out to send
    send_attempts,    \* calls to Sender::send
    warn_logged,      \* log::warn! lines for failed sends
    send_panicked,    \* a send made the coordinator panic
    profiler_enabled, \* Verso::profiler_enabled
    toggles,          \* ToggleSamplingProfiler events handled so far
    toggle_log,       \* the message handed to send for each of them, in order
    \* ---- font and canvas requests forwarded to the compositor
    req_pc,           \* per caller: "idle", "waiting", "returned", "panicked"
    req_kind,         \* per caller: the request it last made
    req_calls,        \* per caller: requests made so far
    req_chan,         \* per caller: the reply channel of its request
    req_ret,          \* per caller: what its last request returned
    req_recv,         \* per caller: what recv() last gave, "reply" or "closed"
    req_msgs,         \* per caller: messages it sent to the compositor
    forwarded_q,      \* requests waiting in the compositor's channel
    replies,          \* replies sent and not yet received
    closed,           \* reply channels whose sender was dropped
    reordered         \* the compositor answered a request ahead of an older one

vars == << alive, pc, event, shutdown_state, status, compositor_q, embedder_q,
           webview_id, animating, recv_ok, ticks, comp_sent, emb_sent,
           dispatch_states, taken_states, handler_calls, err_logged,
           updates_tick, state_at_step4, closed_tick, state_after_close,
           took_tick, dispatch_log, stale_dropped, comp_start, start_state,
           comp_taken_tick, deinit_count,
           shutdown_returns, last_return, ticks_after_finished,
           loop_exited, user_events, wake_ticks, wake_errors, waker_state,
           wakes_by, constellation_alive, constellation_q, cmds_issued,
           send_attempts, warn_logged, send_panicked, profiler_enabled,
           toggles, toggle_log, req_pc, req_kind, req_calls, req_chan,
           req_ret, req_recv, req_msgs, forwarded_q, replies, closed,
           reordered >>

\* the coordinator and the observations of its ticks
verso_vars ==
    << alive, pc, event, shutdown_state, status, compositor_q, embedder_q,
       webview_id, animating, recv_ok, ticks, comp_sent, emb_sent,
       dispatch_states, taken_states, handler_calls, err_logged,
       updates_tick, state_at_step4, closed_tick, state_after_close,
       took_tick, dispatch_log, stale_dropped, comp_start, start_state,
       comp_taken_tick, deinit_count, shutdown_returns, last_return,
       ticks_after_finished >>
wake_vars == << loop_exited, user_events, wake_ticks, wake_errors,
                waker_state, wakes_by >>
profiler_vars == << profiler_enabled, toggles, toggle_log >>
send_vars == << constellation_alive, constellation_q, cmds_issued,
                send_attempts, warn_logged, send_panicked, profiler_vars >>
font_vars == << req_pc, req_kind, req_calls, req_chan, req_ret, req_recv,
                req_msgs, forwarded_q, replies, closed, reordered >>
aux == << wake_vars, send_vars, font_vars >>

prog  == << alive, pc, event, shutdown_state, status, compositor_q, embedder_q,
            webview_id, animating, recv_ok >>
sent  == << comp_sent, emb_sent >>
disp  == << dispatch_states, taken_states, handler_calls, err_logged,
            closed_tick, state_after_close, took_tick, dispatch_log,
            stale_dropped >>
step4 == << updates_tick, state_at_step4 >>
start == << comp_start, start_state, comp_taken_tick >>
life  == << deinit_count, shutdown_returns, last_return >>

\* ------------------------------------------------- compositor (IOCompositor)
\* IOCompositor::maybe_start_shutting_down: begins shutdown only from
\* NotShuttingDown, otherwise leaves the state alone.
maybe_start_shutting_down(s) ==
    IF s = NotShuttingDown THEN ShuttingDown ELSE s

\* IOCompositor::receive_messages: takes every queued message off the
\* channel and handles them oldest first; a ShutdownComplete finishes the
\* shutdown, and handling stops (result false) at a ShutdownComplete or at
\* any message that arrives once shutdown has finished.
RECURSIVE receive_messages(_, _)
receive_messages(s, q) ==
    IF q = << >> THEN [state |-> s, ok |-> TRUE]
    ELSE IF s = FinishedShuttingDown THEN [state |-> s, ok |-> FALSE]
    ELSE IF Head(q) = "ShutdownComplete"
         THEN [state |-> FinishedShuttingDown, ok |-> FALSE]
    ELSE receive_messages(s, Tail(q))

\* ------------------------------------------------------------ window (Window)
\* Window::handle_servo_message: a message for a view the window does not
\* own is dropped; the close of the window's view removes it and reports
\* that the last window is gone (true); everything else reports false.
handle_servo_message(view, msg) ==
    IF msg[1] # NoView /\ msg[1] # view
    THEN [view |-> view, result |-> FALSE]
    ELSE IF msg[1] = view /\ msg[2] = "Close"
    THEN [view |-> NoView, result |-> TRUE]
    ELSE [view |-> view, result |-> FALSE]

\* Window::handle_winit_window_event: a native close request asks the
\* compositor to begin shutting down; other window events leave the
\* shutdown state alone.
handle_winit_window_event(s, e) ==
    IF e = "CloseRequested" THEN maybe_start_shutting_down(s) ELSE s

\* ------------------------------------------------------------------- Init
\* everything but the status and the shutdown state (verso.rs:383-393);
\* the native loop runs, no wake and no command has been issued
InitRest ==
    /\ alive = TRUE
    /\ pc = "idle"
    /\ event = "NoEvent"
    /\ compositor_q = << >>
    /\ embedder_q = << >>
    /\ webview_id = LiveView
    /\ animating = FALSE
    /\ recv_ok = FALSE
    /\ ticks = 0
    /\ comp_sent = 0
    /\ emb_sent = 0
    /\ dispatch_states = {}
    /\ taken_states = {}
    /\ handler_calls = 0
    /\ err_logged = 0
    /\ updates_tick = 0
    /\ state_at_step4 = "unread"
    /\ closed_tick = FALSE
    /\ state_after_close = "none"
    /\ took_tick = FALSE
    /\ dispatch_log = << >>
    /\ stale_dropped = 0
    /\ comp_start = << >>
    /\ start_state = NotShuttingDown
    /\ comp_taken_tick = 0
    /\ deinit_count = 0
    /\ shutdown_returns = 0
    /\ last_return = "none"
    /\ ticks_after_finished = 0
    /\ loop_exited = FALSE
    /\ user_events = 0
    /\ wake_ticks = 0
    /\ wake_errors = 0
    /\ waker_state = [t \in Threads |-> "running"]
    /\ wakes_by = [t \in Threads |-> 0]
    /\ constellation_alive = TRUE
    /\ constellation_q = << >>
    /\ cmds_issued = 0
    /\ send_attempts = 0
    /\ warn_logged = 0
    /\ send_panicked = FALSE
    /\ profiler_enabled = FALSE
    /\ toggles = 0
    /\ toggle_log = << >>
    /\ req_pc = [t \in Callers |-> "idle"]
    /\ req_kind = [t \in Callers |-> "none"]
    /\ req_calls = [t \in Callers |-> 0]
    /\ req_chan = [t \in Callers |-> << >>]
    /\ req_ret = [t \in Callers |-> [tag |-> "none", key |-> << >>]]
    /\ req_recv = [t \in Callers |-> "none"]
    /\ req_msgs = [t \in Callers |-> 0]
    /\ forwarded_q = << >>
    /\ replies = {}
    /\ closed = {}
    /\ reordered = FALSE

Init ==
    /\ shutdown_state = NotShuttingDown
    /\ status = "None"
    /\ InitRest

\* ------------------------------------------------------------ engine threads
\* CompositorProxy::send from an engine thread.  The constellation sends
\* ShutdownComplete once, in answer to the compositor's exit request.
CompositorProxySend(m) ==
    /\ alive
    /\ comp_sent < MaxCompSent
    /\ m = "ShutdownComplete" =>
          /\ shutdown_state = ShuttingDown
          /\ \A i \in 1..Len(compositor_q) : compositor_q[i] # "ShutdownComplete"
    /\ compositor_q' = Append(compositor_q, m)
    /\ comp_sent' = comp_sent + 1
    /\ UNCHANGED << alive, pc, event, shutdown_state, status, embedder_q,
                    webview_id, animating, recv_ok, ticks, emb_sent >>
    /\ UNCHANGED << disp, step4, start, life, ticks_after_finished >>
    /\ UNCHANGED aux

\* EmbedderProxy::send from an engine thread.
EmbedderProxySend(m) ==
    /\ alive
    /\ emb_sent < MaxEmbSent
    /\ embedder_q' = Append(embedder_q, [seq |-> emb_sent + 1, msg |-> m])
    /\ emb_sent' = emb_sent + 1
    /\ UNCHANGED << alive, pc, event, shutdown_state, status, compositor_q,
                    webview_id, animating, recv_ok, ticks, comp_sent >>
    /\ UNCHANGED << disp, step4, start, life, ticks_after_finished >>
    /\ UNCHANGED aux

\* ------------------------------------------------------------ Verso::run
\* The native loop calls run with an event (verso.rs:569).
run(e) ==
    /\ alive
    /\ pc = "idle"
    /\ ticks < MaxTicks
    /\ pc' = "handle_servo_messages"
    /\ event' = e
    /\ ticks' = ticks + 1
    /\ ticks_after_finished' =
          IF shutdown_state = FinishedShuttingDown
          THEN ticks_after_finished + 1 ELSE ticks_after_finished
    /\ updates_tick' = 0
    /\ state_at_step4' = "unread"
    /\ closed_tick' = FALSE
    /\ took_tick' = FALSE
    /\ comp_start' = compositor_q
    /\ start_state' = shutdown_state
    /\ comp_taken_tick' = 0
    /\ UNCHANGED << alive, shutdown_state, status, compositor_q, embedder_q,
                    webview_id, animating, recv_ok, sent, dispatch_states,
                    taken_states, handler_calls, err_logged,
                    state_after_close, dispatch_log, stale_dropped, life >>
    /\ UNCHANGED aux

\* handle_servo_messages without the compositor drain.
handle_servo_messages_no_drain ==
    /\ alive
    /\ pc = "handle_servo_messages"
    /\ recv_ok' = TRUE
    /\ pc' = "try_recv_embedder_msg"
    /\ UNCHANGED << alive, event, shutdown_state, status, compositor_q,
                    embedder_q, webview_id, animating, ticks, sent, disp,
                    step4, start, life, ticks_after_finished >>
    /\ UNCHANGED aux

\* the embedder loop entered whatever receive_messages returned
AfterReceiveAlwaysLoop(ok) == "try_recv_embedder_msg"

\* if self.compositor.receive_messages() { .. } (verso.rs:597): where the
\* thread goes after the drain
AfterReceive(ok) ==
    IF ok THEN "try_recv_embedder_msg" ELSE "handle_winit_event"

\* handle_servo_messages, its first line (verso.rs:597): the compositor
\* channel is drained, and the embedder loop is entered only on true.
handle_servo_messages ==
    /\ alive
    /\ pc = "handle_servo_messages"
    /\ LET r == receive_messages(shutdown_state, compositor_q) IN
          /\ shutdown_state' = r.state
          /\ recv_ok' = r.ok
          /\ pc' = AfterReceive(r.ok)
    /\ comp_taken_tick' = Len(compositor_q)
    /\ compositor_q' = << >>
    /\ UNCHANGED << alive, event, status, embedder_q, webview_id, animating,
                    ticks, sent, disp, step4, comp_start, start_state, life,
                    ticks_after_finished >>
    /\ UNCHANGED aux

\* the dispatch arm that also dispatches after shutdown has finished
MatchArmDispatchAfterFinish(s) ==
    IF s = ShuttingDown THEN "ignore" ELSE "dispatch"

\* the dispatch arm that also dispatches while shutting down
MatchArmDispatchWhileShuttingDown(s) ==
    CASE s = NotShuttingDown      -> "dispatch"
      [] s = FinishedShuttingDown -> "error"
      [] s = ShuttingDown         -> "dispatch"

\* the dispatch arm that drops a post-terminal message without the log line
MatchArmSilentAfterFinish(s) ==
    IF s = NotShuttingDown THEN "dispatch" ELSE "ignore"

\* match self.compositor.shutdown_state (verso.rs:601-619)
MatchArm(s) ==
    CASE s = NotShuttingDown      -> "dispatch"
      [] s = FinishedShuttingDown -> "error"
      [] s = ShuttingDown         -> "ignore"

\* a receive that takes the newest message instead of the oldest
RecvIndexNewest(q) == Len(q)

\* try_recv_embedder_msg on a channel that holds messages (verso.rs:599):
\* the position of the message it takes, the oldest
RecvIndex(q) == 1

\* the channel without the message at position i
RemoveAt(q, i) == SubSeq(q, 1, i - 1) \o SubSeq(q, i + 1, Len(q))

\* a receive that waits for a message instead of returning None
RecvBlocksOnEmpty == FALSE

\* try_recv_embedder_msg on an empty channel returns None at once, which
\* ends the while-let loop (verso.rs:598-600, 620)
TryRecvNone ==
    /\ pc' = "handle_winit_event"
    /\ UNCHANGED << embedder_q, status, webview_id, disp >>

\* status set to Shutdown for every dispatched message
StatusAfterDispatchAlways(st, result) == "Shutdown"

\* status assigned from the handler's result, true or false
StatusAfterDispatchAssigned(st, result) ==
    IF result THEN "Shutdown" ELSE "None"

\* the use of the handler's result (verso.rs:603-611)
StatusAfterDispatch(st, result) == IF result THEN "Shutdown" ELSE st

\* the view of a message is one the window does not own
IsStale(view, msg) == msg[1] # NoView /\ msg[1] # view

\* one iteration of the while-let loop (verso.rs:598-620): try_recv either
\* finds the channel empty, which ends the loop, or takes the oldest
\* message, which is then matched against the shutdown state.
try_recv_embedder_msg ==
    /\ alive
    /\ pc = "try_recv_embedder_msg"
    /\ IF embedder_q = << >>
       THEN TryRecvNone
       ELSE LET i   == RecvIndex(embedder_q)
                msg == embedder_q[i].msg
                arm == MatchArm(shutdown_state)
                h   == handle_servo_message(webview_id, msg)
            IN  /\ embedder_q' = RemoveAt(embedder_q, i)
                /\ pc' = pc
                /\ took_tick' = TRUE
                /\ taken_states' = taken_states \cup {shutdown_state}
                /\ IF arm = "dispatch"
                   THEN /\ dispatch_states' = dispatch_states \cup {shutdown_state}
                        /\ handler_calls' = handler_calls + 1
                        /\ dispatch_log' = Append(dispatch_log, embedder_q[i].seq)
                        /\ stale_dropped' = IF IsStale(webview_id, msg)
                                            THEN stale_dropped + 1
                                            ELSE stale_dropped
                        /\ webview_id' = h.view
                        /\ status' = StatusAfterDispatch(status, h.result)
                        /\ closed_tick' = (closed_tick \/ h.result)
                        /\ state_after_close' =
                              IF h.result THEN shutdown_state ELSE state_after_close
                        /\ UNCHANGED err_logged
                   ELSE /\ err_logged' = IF arm = "error" THEN err_logged + 1
                                         ELSE err_logged
                        /\ UNCHANGED << dispatch_states, handler_calls, webview_id,
                                        status, closed_tick, state_after_close,
                                        dispatch_log, stale_dropped >>
    /\ UNCHANGED << alive, event, shutdown_state, compositor_q, animating,
                    recv_ok, ticks, sent, step4, start, life,
                    ticks_after_finished >>
    /\ UNCHANGED aux

\* a native close request that also sets the status to Shutdown
StatusAfterEventCloseShutsDown(st, e) ==
    IF e = "Suspended" THEN "None"
    ELSE IF e = "CloseRequested" THEN "Shutdown" ELSE st

\* what the match of handle_winit_event does to the status
\* (verso.rs:579-593): only Event::Suspended assigns it
StatusAfterEvent(st, e) == IF e = "Suspended" THEN "None" ELSE st

\* handle_winit_event (verso.rs:577-594)
handle_winit_event ==
    /\ alive
    /\ pc = "handle_winit_event"
    /\ status' = StatusAfterEvent(status, event)
    /\ shutdown_state' =
          IF event \in {"CloseRequested", "WindowEvent"}
          THEN handle_winit_window_event(shutdown_state, event)
          ELSE shutdown_state
    /\ event' = "NoEvent"      \* the event is moved into the call
    /\ pc' = "handle_servo_messages2"
    /\ UNCHANGED << alive, compositor_q, embedder_q, webview_id,
                    animating, recv_ok, ticks, sent, disp, step4, start, life,
                    ticks_after_finished >>
    /\ UNCHANGED aux

\* the test of step 4 that performs updates in every state
PerformsUpdatesAlways(s) == TRUE

\* the test of step 4 (verso.rs:627)
PerformsUpdates(s) == s # FinishedShuttingDown

\* the else branch of step 4 starting shutdown unconditionally
Step4ElseRestart(s) == ShuttingDown

\* the else branch of step 4 (verso.rs:630)
Step4Else(s) == maybe_start_shutting_down(s)

\* the status decision with the two animation outcomes exchanged
Step6StatusSwapped(st, a) ==
    IF st = "Shutdown" THEN "Shutdown" ELSE IF a THEN "None" ELSE "Animating"

\* the status decision that ends the tick (verso.rs:633-640)
Step6Status(st, a) ==
    IF st = "Shutdown" THEN "Shutdown" ELSE IF a THEN "Animating" ELSE "None"

\* handle_servo_messages2 (verso.rs:624-641); a is window.is_animating()
handle_servo_messages2(a) ==
    /\ alive
    /\ pc = "handle_servo_messages2"
    /\ state_at_step4' = shutdown_state
    /\ IF PerformsUpdates(shutdown_state)
       THEN /\ updates_tick' = updates_tick + 1
            /\ UNCHANGED shutdown_state
       ELSE /\ shutdown_state' = Step4Else(shutdown_state)
            /\ UNCHANGED updates_tick
    /\ animating' = a
    /\ status' = Step6Status(status, a)
    /\ pc' = "return"
    /\ UNCHANGED << alive, event, compositor_q, embedder_q, webview_id,
                    recv_ok, ticks, sent, disp, start, life,
                    ticks_after_finished >>
    /\ UNCHANGED aux

\* run returns self.status (verso.rs:573-574); the observations of the tick
\* end with it
run_return ==
    /\ alive
    /\ pc = "return"
    /\ pc' = "idle"
    /\ event' = "NoEvent"
    /\ last_return' = status
    /\ shutdown_returns' =
          IF status = "Shutdown" THEN shutdown_returns + 1 ELSE shutdown_returns
    /\ updates_tick' = 0
    /\ state_at_step4' = "unread"
    /\ closed_tick' = FALSE
    /\ took_tick' = FALSE
    /\ comp_start' = << >>
    /\ start_state' = shutdown_state
    /\ comp_taken_tick' = 0
    /\ UNCHANGED << alive, shutdown_state, status, compositor_q, embedder_q,
                    webview_id, animating, recv_ok, ticks, sent,
                    dispatch_states, taken_states, handler_calls, err_logged,
                    state_after_close, dispatch_log, stale_dropped,
                    deinit_count, ticks_after_finished >>
    /\ UNCHANGED aux

\* deinit that borrows the coordinator instead of consuming it
deinit_borrowed ==
    /\ alive
    /\ pc = "idle"
    /\ last_return = "Shutdown"
    /\ deinit_count < MaxTicks
    /\ deinit_count' = deinit_count + 1
    /\ UNCHANGED << prog, ticks, sent, disp, step4, start, shutdown_returns,
                    last_return, ticks_after_finished >>
    /\ UNCHANGED aux

\* Verso::deinit(self) (verso.rs:546-549), called by the native loop after
\* run has returned Status::Shutdown; self is moved into the call.
deinit ==
    /\ alive
    /\ pc = "idle"
    /\ last_return = "Shutdown"
    /\ alive' = FALSE
    /\ deinit_count' = deinit_count + 1
    /\ UNCHANGED << pc, event, shutdown_state, status, compositor_q,
                    embedder_q, webview_id, animating, recv_ok, ticks, sent,
                    disp, step4, start, shutdown_returns, last_return,
                    ticks_after_finished >>
    /\ UNCHANGED aux

Next ==
    \/ \E m \in CompositorMsg : CompositorProxySend(m)
    \/ \E m \in EmbedderMsg : EmbedderProxySend(m)
    \/ \E e \in Event : run(e)
    \/ handle_servo_messages
    \/ try_recv_embedder_msg
    \/ handle_winit_event
    \/ \E a \in BOOLEAN : handle_servo_messages2(a)
    \/ run_return
    \/ deinit

Spec == Init /\ [][Next]_vars

\* a step of the event-loop thread inside a call to run
RunStep ==
    \/ handle_servo_messages
    \/ try_recv_embedder_msg
    \/ handle_winit_event
    \/ \E a \in BOOLEAN : handle_servo_messages2(a)
    \/ run_return

\* The event-loop thread keeps executing the call to run it is in: a step
\* of run is taken once it can be.  Nothing is assumed of the engine
\* threads or of the native loop calling run again.
FairSpec == Spec /\ WF_vars(RunStep)

\* ------------------------------------------------------- the wake bridge
\* a wake that unwraps the result of send_event
WakeOutcomeUnwrap(send_result) ==
    IF send_result = "Err" THEN "panicked" ELSE "sent"

\* what Waker::wake makes of the result of proxy.send_event(())
\* (verso.rs:653-658): an error is logged, nothing else
WakeOutcome(send_result) ==
    IF send_result = "Err" THEN "logged" ELSE "sent"

\* Waker::wake on thread t (verso.rs:652-659): one send_event(()) for each
\* call; the proxy queues one UserEvent for each event sent while the loop
\* runs, and returns an error once the loop has exited.
wake(t) ==
    /\ waker_state[t] = "running"
    /\ wakes_by[t] < MaxWakes
    /\ LET outcome == WakeOutcome(IF loop_exited THEN "Err" ELSE "Ok") IN
          /\ user_events' = IF outcome = "sent" THEN user_events + 1
                            ELSE user_events
          /\ wake_errors' = IF outcome = "logged" THEN wake_errors + 1
                            ELSE wake_errors
          /\ waker_state' = [waker_state EXCEPT ![t] =
                                IF outcome = "panicked" THEN "panicked"
                                ELSE "running"]
    /\ wakes_by' = [wakes_by EXCEPT ![t] = wakes_by[t] + 1]
    /\ UNCHANGED << loop_exited, wake_ticks, verso_vars, send_vars, font_vars >>

\* The native loop hands one queued UserEvent to run, which is one tick
\* (verso.rs:569, 583).
NativeLoopDeliver ==
    /\ ~loop_exited
    /\ user_events > 0
    /\ user_events' = user_events - 1
    /\ wake_ticks' = wake_ticks + 1
    /\ UNCHANGED << loop_exited, wake_errors, waker_state, wakes_by,
                    verso_vars, send_vars, font_vars >>

\* The native loop exits; the events still queued are never delivered.
NativeLoopExit ==
    /\ ~loop_exited
    /\ loop_exited' = TRUE
    /\ user_events' = 0
    /\ UNCHANGED << wake_ticks, wake_errors, waker_state, wakes_by,
                    verso_vars, send_vars, font_vars >>

WakeNext ==
    \/ \E t \in Threads : wake(t)
    \/ NativeLoopDeliver
    \/ NativeLoopExit

WakeSpec == Init /\ [][WakeNext]_vars

\* --------------------------------------- commands to the constellation
\* a send that is tried again after it failed
SendOnceRetry(open) ==
    IF open THEN [attempts |-> 1, delivered |-> TRUE, warned |-> 0, panic |-> FALSE]
    ELSE [attempts |-> 2, delivered |-> FALSE, warned |-> 2, panic |-> FALSE]

\* a send whose result is unwrapped
SendOnceUnwrap(open) ==
    IF open THEN [attempts |-> 1, delivered |-> TRUE, warned |-> 0, panic |-> FALSE]
    ELSE [attempts |-> 1, delivered |-> FALSE, warned |-> 0, panic |-> TRUE]

\* `if let Err(e) = sender.send(msg) { log::warn!(..) }` (verso.rs:827-829,
\* 420-425, 430-432): one send; a closed channel gives an error, which is
\* logged
SendOnce(open) ==
    IF open THEN [attempts |-> 1, delivered |-> TRUE, warned |-> 0, panic |-> FALSE]
    ELSE [attempts |-> 1, delivered |-> FALSE, warned |-> 1, panic |-> FALSE]

\* the effect of one command on the channel and the logs
Command(msg) ==
    /\ ~send_panicked
    /\ cmds_issued < MaxCmds
    /\ cmds_issued' = cmds_issued + 1
    /\ LET r == SendOnce(constellation_alive) IN
          /\ send_attempts' = send_attempts + r.attempts
          /\ constellation_q' = IF r.delivered THEN Append(constellation_q, msg)
                                ELSE constellation_q
          /\ warn_logged' = warn_logged + r.warned
          /\ send_panicked' = r.panic
    /\ UNCHANGED << constellation_alive, profiler_vars, verso_vars, wake_vars,
                    font_vars >>

\* send_to_constellation(sender, msg) (verso.rs:825-830)
send_to_constellation(msg) == Command(msg)

\* handle_window_event for the events that send a command (verso.rs:418-433);
\* it returns false (543) and touches neither status nor the compositor
handle_window_event(ev) == Command(ev)

\* the profiler message chosen from the flag's value before the flip
ProfilerMsgBeforeFlip(enabled) ==
    IF enabled THEN "DisableProfiler" ELSE "EnableProfiler"

\* the message for the flag's new value (verso.rs:464-468)
ProfilerMsg(enabled) ==
    IF enabled THEN "EnableProfiler" ELSE "DisableProfiler"

\* handle_window_event for EmbedderEvent::ToggleSamplingProfiler
\* (verso.rs:462-472): the flag is flipped first, the message follows the
\* new value, and a failed send is logged
ToggleSamplingProfiler ==
    /\ ~send_panicked
    /\ cmds_issued < MaxCmds
    /\ cmds_issued' = cmds_issued + 1
    /\ profiler_enabled' = ~profiler_enabled
    /\ toggles' = toggles + 1
    /\ LET msg == ProfilerMsg(profiler_enabled')
           r   == SendOnce(constellation_alive)
       IN  /\ toggle_log' = Append(toggle_log, msg)
           /\ send_attempts' = send_attempts + r.attempts
           /\ constellation_q' = IF r.delivered
                                 THEN Append(constellation_q, msg)
                                 ELSE constellation_q
           /\ warn_logged' = warn_logged + r.warned
           /\ send_panicked' = r.panic
    /\ UNCHANGED << constellation_alive, verso_vars, wake_vars, font_vars >>

\* The constellation exits and drops its receiver.
ConstellationExit ==
    /\ constellation_alive
    /\ constellation_alive' = FALSE
    /\ UNCHANGED << constellation_q, cmds_issued, send_attempts, warn_logged,
                    send_panicked, profiler_vars, verso_vars, wake_vars,
                    font_vars >>

\* the coordinator between two ticks, in any status and shutdown state
SendInit ==
    /\ shutdown_state \in ShutdownState
    /\ status \in Status
    /\ InitRest

SendNext ==
    \/ \E msg \in SentByNew : send_to_constellation(msg)
    \/ \E ev \in SendingEvents : handle_window_event(ev)
    \/ ToggleSamplingProfiler
    \/ ConstellationExit

SendSpec == SendInit /\ [][SendNext]_vars

\* ------------------------------------ font and canvas requests (proxies)
\* one reply channel shared by the callers' n-th requests
unbounded_shared(t, n) == << "shared", n >>

\* let (sender, receiver) = unbounded() (verso.rs:719, 728, 740, 754, 769,
\* 783): the reply channel made by the n-th call of thread t, for that call
\* alone
unbounded(t, n) == << t, n >>

\* what receiver.recv() gives: a reply, or an error once the channel is
\* empty and its sender is dropped
RecvOk(k) == [ok |-> TRUE, key |-> k]
RecvErr   == [ok |-> FALSE, key |-> << >>]

\* receiver.recv().unwrap() (verso.rs:724, 736, 745, 759, 774); the forward_*
\* variants pass the key on to result_sender and ignore that send's result
font_result(r) ==
    IF r.ok THEN [tag |-> "key", key |-> r.key]
    ELSE [tag |-> "panic", key |-> << >>]

\* generate_key with the result of recv unwrapped
generate_key_unwrap(r) ==
    IF r.ok THEN [tag |-> "Some", key |-> r.key]
    ELSE [tag |-> "panic", key |-> << >>]

\* receiver.recv().ok() (verso.rs:788)
generate_key_result(r) ==
    IF r.ok THEN [tag |-> "Some", key |-> r.key]
    ELSE [tag |-> "None", key |-> << >>]

\* A request up to its send (verso.rs:719-723 and alike): the call makes a
\* reply channel and sends one message that carries the channel's sender.
request(t, kind) ==
    /\ req_pc[t] \in {"idle", "returned"}
    /\ req_calls[t] < MaxReqs
    /\ LET n == req_calls[t] + 1
           c == unbounded(t, n)
       IN  /\ req_calls' = [req_calls EXCEPT ![t] = n]
           /\ req_chan' = [req_chan EXCEPT ![t] = c]
           /\ forwarded_q' = Append(forwarded_q,
                  [kind |-> kind, sender |-> c, from |-> << t, n >>])
    /\ req_kind' = [req_kind EXCEPT ![t] = kind]
    /\ req_msgs' = [req_msgs EXCEPT ![t] = req_msgs[t] + 1]
    /\ req_pc' = [req_pc EXCEPT ![t] = "waiting"]
    /\ UNCHANGED << req_ret, req_recv, replies, closed, reordered,
                    verso_vars, wake_vars, send_vars >>

\* The request's last line: recv() waits until the channel holds a reply
\* or is closed, and the call returns or panics on what it gave.
recv(t) ==
    /\ req_pc[t] = "waiting"
    /\ LET mine == { r \in replies : r.chan = req_chan[t] }
           finish(r) ==
               LET res == IF req_kind[t] = "generate_key"
                          THEN generate_key_result(r) ELSE font_result(r)
               IN  /\ req_ret' = [req_ret EXCEPT ![t] = res]
                   /\ req_recv' = [req_recv EXCEPT ![t] =
                                      IF r.ok THEN "reply" ELSE "closed"]
                   /\ req_pc' = [req_pc EXCEPT ![t] =
                                    IF res.tag = "panic" THEN "panicked"
                                    ELSE "returned"]
       IN  \/ \E r \in mine : /\ replies' = replies \ {r}
                               /\ finish(RecvOk(r.key))
           \/ /\ mine = {}
              /\ req_chan[t] \in closed
              /\ replies' = replies
              /\ finish(RecvErr)
    /\ UNCHANGED << req_kind, req_calls, req_chan, req_msgs, forwarded_q,
                    closed, reordered, verso_vars, wake_vars, send_vars >>

\* The compositor answers one of the waiting requests, in any order: the
\* key made for the request goes to the sender the request carried, and
\* the sender is dropped with the message.
CompositorReply(i) ==
    /\ i \in 1..Len(forwarded_q)
    /\ LET m == forwarded_q[i] IN
          /\ replies' = replies \cup {[chan |-> m.sender, key |-> m.from]}
          /\ closed' = closed \cup {m.sender}
    /\ forwarded_q' = RemoveAt(forwarded_q, i)
    /\ reordered' = (reordered \/ i > 1)
    /\ UNCHANGED << req_pc, req_kind, req_calls, req_chan, req_ret, req_recv,
                    req_msgs, verso_vars, wake_vars, send_vars >>

\* The compositor drops a request without answering it, as it does when it
\* has shut down: the sender in the message is dropped.
CompositorDropRequest(i) ==
    /\ i \in 1..Len(forwarded_q)
    /\ closed' = closed \cup {forwarded_q[i].sender}
    /\ forwarded_q' = RemoveAt(forwarded_q, i)
    /\ UNCHANGED << req_pc, req_kind, req_calls, req_chan, req_ret, req_recv,
                    req_msgs, replies, reordered, verso_vars, wake_vars,
                    send_vars >>

FontNext ==
    \/ \E t \in Callers, kind \in Requests : request(t, kind)
    \/ \E t \in Callers : recv(t)
    \/ \E i \in 1..MaxReqs * Cardinality(Callers) : CompositorReply(i)
    \/ \E i \in 1..MaxReqs * Cardinality(Callers) : CompositorDropRequest(i)

FontSpec == Init /\ [][FontNext]_vars

TypeOK ==
    /\ alive \in BOOLEAN
    /\ pc \in {"idle", "handle_servo_messages", "try_recv_embedder_msg",
               "handle_winit_event", "handle_servo_messages2", "return"}
    /\ event \in Event \cup {"NoEvent"}
    /\ shutdown_state \in ShutdownState
    /\ status \in Status
    /\ webview_id \in {LiveView, NoView}
    /\ Len(compositor_q) <= MaxCompSent
    /\ Len(embedder_q) <= MaxEmbSent

\* ------------------------------------------------------------------ claims
Range(q) == { q[i] : i \in 1..Len(q) }

\* the position of a shutdown state in the order of ShutdownState
Rank(s) == CASE s = NotShuttingDown      -> 0
             [] s = ShuttingDown         -> 1
             [] s = FinishedShuttingDown -> 2

\* a step of the embedder loop that takes a message off the channel
TakesEmbedderMsg == Len(embedder_q') < Len(embedder_q)

\* C1: every message handed to the window handler was handed over with the
\* shutdown state read as NotShuttingDown; none is dispatched once the state
\* is FinishedShuttingDown.
C1_DispatchOnlyWhenNotShuttingDown ==
    dispatch_states \subseteq {NotShuttingDown}

\* a message was dispatched, and a later one arrived after shutdown finished
C1_Witness == handler_calls > 0 /\ err_logged > 0

\* C2: a tick whose step 4 reads FinishedShuttingDown ends with run
\* returning Status::Shutdown (terminal deinitialization, loop exit).
C2_FinishedTickReturnsShutdown ==
    (pc = "return" /\ state_at_step4 = FinishedShuttingDown)
        => status = "Shutdown"

\* C3: perform_updates runs exactly once in a tick whose step 4 reads a
\* state other than FinishedShuttingDown, and not at all otherwise.
C3_PerformUpdatesOncePerTick ==
    /\ state_at_step4 = "unread" => updates_tick = 0
    /\ state_at_step4 = FinishedShuttingDown => updates_tick = 0
    /\ state_at_step4 \in {NotShuttingDown, ShuttingDown} => updates_tick = 1

\* step 4 has run in a tick that was shutting down
C3_Witness ==
    pc = "return" /\ state_at_step4 = ShuttingDown /\ updates_tick = 1

\* C4: the compositor is deinitialized at most once, however many ticks
\* run after the shutdown state reached FinishedShuttingDown.
C4_DeinitAtMostOnce == deinit_count <= 1

\* deinit has run after two ticks that began in FinishedShuttingDown
C4_Witness == deinit_count = 1 /\ ticks_after_finished >= 2

\* C5: the close of the last window moves the state to ShuttingDown, a
\* ShutdownComplete then moves it to FinishedShuttingDown, and exactly one
\* call to run returns Status::Shutdown.
C5_CloseScenario ==
    /\ state_after_close \in {"none", ShuttingDown}
    /\ ("ShutdownComplete" \in Range(comp_start)
          /\ pc \in {"try_recv_embedder_msg", "handle_winit_event",
                     "handle_servo_messages2", "return"})
       => shutdown_state = FinishedShuttingDown
    /\ shutdown_returns <= 1

\* C6: a tick in which the handler reported the last window gone returns
\* with the shutdown state no longer NotShuttingDown.
C6_LastWindowCloseLeavesNotShuttingDown ==
    (pc = "return" /\ closed_tick) => shutdown_state # NotShuttingDown

\* C7: no step moves the shutdown state backward in the order
\* NotShuttingDown, ShuttingDown, FinishedShuttingDown.
C7_Monotonic ==
    [][Rank(shutdown_state') >= Rank(shutdown_state)]_vars

\* step 4 has called maybe_start_shutting_down in FinishedShuttingDown
C7_Witness ==
    /\ pc = "return"
    /\ state_at_step4 = FinishedShuttingDown
    /\ shutdown_state = FinishedShuttingDown

\* C8: while the embedder loop runs, every compositor message that was
\* queued when the tick began has been taken off the compositor channel,
\* and the shutdown state the loop reads reflects all of them.
C8_CompositorDrainedFirst ==
    pc = "try_recv_embedder_msg" =>
        /\ comp_taken_tick >= Len(comp_start)
        /\ shutdown_state = receive_messages(start_state, comp_start).state

\* an embedder message was taken in a tick that began with compositor
\* messages queued
C8_Witness ==
    pc = "try_recv_embedder_msg" /\ took_tick /\ Len(comp_start) > 0

\* C9, as claimed: a message is taken off the embedder channel only while
\* the shutdown state is NotShuttingDown.
C9_TakenOnlyWhenNotShuttingDown ==
    taken_states \subseteq {NotShuttingDown}

\* C9, amended: a message taken off the embedder channel while the state is
\* ShuttingDown or FinishedShuttingDown is taken in a tick whose
\* receive_messages returned true, and is discarded: the handler is not
\* called and status and the window are left alone.
C9_TakenOutsideNotShuttingDownDiscarded ==
    [][(TakesEmbedderMsg /\ shutdown_state # NotShuttingDown)
         => /\ recv_ok
            /\ embedder_q' = Tail(embedder_q)
            /\ handler_calls' = handler_calls
            /\ status' = status
            /\ webview_id' = webview_id]_vars

\* a message was taken off the channel while shutting down
C9_Witness == ShuttingDown \in taken_states

\* C10: a message taken while the state is FinishedShuttingDown is logged
\* as an error and dropped: it leaves the channel, the handler is not
\* called, status and shutdown state stay, and the tick goes on.
C10_PostTerminalMessageDropped ==
    [][(TakesEmbedderMsg /\ shutdown_state = FinishedShuttingDown)
         => /\ err_logged' = err_logged + 1
            /\ embedder_q' = Tail(embedder_q)
            /\ handler_calls' = handler_calls
            /\ status' = status
            /\ shutdown_state' = shutdown_state
            /\ alive'
            /\ pc' = "try_recv_embedder_msg"]_vars

\* a tick that logged a post-terminal message has reached its return
C10_Witness ==
    pc = "return" /\ err_logged > 0 /\ FinishedShuttingDown \in taken_states

\* C11: the status a tick ends with is Shutdown if it was Shutdown when the
\* decision was made, otherwise Animating if the window reports an
\* animation and None if not; and that status is what run returns.
C11_SchedulingDecision ==
    [][/\ (pc = "handle_servo_messages2" /\ pc' = "return")
          => status' = IF status = "Shutdown" THEN "Shutdown"
                       ELSE IF animating' THEN "Animating" ELSE "None"
       /\ (pc = "return" /\ pc' = "idle") => last_return' = status]_vars

\* a tick is about to return Animating for an animating window
C11_Witness == pc = "return" /\ animating /\ status = "Animating"

\* C15: the embedder loop never waits on an empty channel, so every call
\* to run comes to its return.
C15_RunTerminates == (pc # "idle") ~> (pc = "idle")

\* the loop has ended on an empty channel after taking a message
C15_Witness == pc = "handle_winit_event" /\ recv_ok /\ took_tick

\* C16: the messages given to the handler are given in the order of their
\* sends.
C16_FifoDispatch ==
    \A i, j \in 1..Len(dispatch_log) :
        i < j => dispatch_log[i] < dispatch_log[j]

\* two messages have been dispatched
C16_Witness == Len(dispatch_log) >= 2

C18_WinitEventHandledFirst ==
    (took_tick \/ comp_taken_tick > 0)
        => pc \in {"handle_servo_messages2", "return"}

\* C19: a dispatched message whose view no window owns is dropped and
\* counted; the window, status and shutdown state are left alone and the
\* loop goes on.
C19_StaleViewDropped ==
    [][(TakesEmbedderMsg /\ shutdown_state = NotShuttingDown
          /\ IsStale(webview_id, Head(embedder_q).msg))
         => /\ stale_dropped' = stale_dropped + 1
            /\ embedder_q' = Tail(embedder_q)
            /\ webview_id' = webview_id
            /\ status' = status
            /\ shutdown_state' = shutdown_state
            /\ alive'
            /\ pc' = pc]_vars

\* a tick that dropped a message for an unknown view has reached its return
C19_Witness == pc = "return" /\ stale_dropped > 0

\* C12: wake calls are coalesced: however many are issued before the native
\* loop handles one, at most one tick is waiting to be run for them.
C12_WakesCoalesced == user_events <= 1

\* C13: a wake that cannot be delivered is only logged: no engine thread
\* panics or stops, and an error is logged only once the loop has exited.
C13_WakeFailureOnlyLogged ==
    /\ \A t \in Threads : waker_state[t] = "running"
    /\ wake_errors > 0 => loop_exited
    /\ loop_exited => user_events = 0

\* both engine threads have called wake after the loop exited
C13_Witness ==
    /\ loop_exited
    /\ wake_errors >= 2
    /\ \A t \in Threads : wakes_by[t] >= 1

\* C14: a command whose send fails is logged and abandoned: one send, one
\* warning, nothing delivered, no panic, status and shutdown state as before.
C14_FailedSendAbandoned ==
    [][(cmds_issued' # cmds_issued /\ ~constellation_alive)
         => /\ send_attempts' = send_attempts + 1
            /\ warn_logged' = warn_logged + 1
            /\ constellation_q' = constellation_q
            /\ ~send_panicked'
            /\ status' = status
            /\ shutdown_state' = shutdown_state]_vars

\* two commands have failed, in a coordinator that had asked for shutdown
C14_Witness ==
    /\ ~constellation_alive
    /\ warn_logged >= 2
    /\ status = "Shutdown"

\* C21 (refuted by the code): once a call to run has returned
\* Status::Shutdown, every later call to run returns Status::Shutdown.
C21_ShutdownSticky ==
    (pc = "idle" /\ shutdown_returns > 0) => last_return = "Shutdown"

\* C22: the status is Shutdown, in a tick or in what run returned, only if
\* the window handler has returned true for a message that was dispatched
\* while the shutdown state was NotShuttingDown; no native event and no
\* compositor message makes it Shutdown.
C22_ShutdownOnlyFromHandler ==
    (status = "Shutdown" \/ last_return = "Shutdown")
        => state_after_close = NotShuttingDown

\* run returned Status::Shutdown, and native close requests and the
\* shutdown acknowledgment have been through as well
C22_Witness ==
    /\ last_return = "Shutdown"
    /\ shutdown_state = FinishedShuttingDown
    /\ pc = "idle"

\* C23: in a tick where compositor.receive_messages() returns false,
\* handle_servo_messages goes straight on to the winit event: it takes no
\* embedder message, calls no handler and leaves the status alone, and the
\* embedder loop is never at work in such a tick.
C23_NoDispatchWhenReceiveFalse ==
    /\ [](pc = "try_recv_embedder_msg" => recv_ok)
    /\ [][(pc = "handle_servo_messages" /\ pc' # pc /\ ~recv_ok')
            => /\ pc' = "handle_winit_event"
               /\ embedder_q' = embedder_q
               /\ status' = status
               /\ handler_calls' = handler_calls
               /\ took_tick' = FALSE]_vars

\* receive_messages returned false in this tick while embedder messages
\* were waiting, and they are still waiting
C23_Witness ==
    /\ pc = "handle_winit_event"
    /\ ~recv_ok
    /\ comp_taken_tick > 0
    /\ embedder_q # << >>
    /\ ~took_tick

\* C26: after n ToggleSamplingProfiler events, starting from
\* profiler_enabled = false, the flag is true iff n is odd; the message
\* handed to the constellation for the i-th event is EnableProfiler iff the
\* flag's new value is true, which is iff i is odd, and DisableProfiler
\* otherwise; a failed send does not keep the flag from flipping.
C26_ProfilerParity ==
    /\ profiler_enabled = (toggles % 2 = 1)
    /\ Len(toggle_log) = toggles
    /\ \A i \in 1..Len(toggle_log) :
          toggle_log[i] = IF i % 2 = 1 THEN "EnableProfiler"
                          ELSE "DisableProfiler"

\* the flag was flipped twice, the second time by an event whose send
\* failed
C26_Witness ==
    /\ toggles >= 2
    /\ ~profiler_enabled
    /\ warn_logged > 0
    /\ "EnableProfiler" \in Range(constellation_q)
    /\ "DisableProfiler" \notin Range(constellation_q)

\* C24: each font request sends exactly one message to the compositor,
\* with a reply channel no other request carries, and returns only after a
\* reply arrived on that channel; the key a caller gets is the one the
\* compositor made for that caller's own request, whatever the order of
\* the answers.
C24_FontReplyIsOwn ==
    /\ \A t \in Callers :
          /\ req_msgs[t] = req_calls[t]
          /\ (req_pc[t] = "returned" /\ req_kind[t] \in FontRequests)
                => /\ req_recv[t] = "reply"
                   /\ req_ret[t] = [tag |-> "key",
                                    key |-> << t, req_calls[t] >>]
    /\ \A i, j \in 1..Len(forwarded_q) :
          i # j => forwarded_q[i].sender # forwarded_q[j].sender
    /\ \A r \in replies : r.chan = r.key

\* both threads had a font request waiting at once, the compositor took
\* the younger request first, and both calls have returned
C24_Witness ==
    /\ reordered
    /\ \A t \in Callers :
          /\ req_pc[t] = "returned"
          /\ req_kind[t] \in FontRequests
          /\ req_calls[t] = 1

\* C25: generate_key never panics; it sends one request and returns
\* Some(key), the key of its own request, if a reply arrived, and None if
\* the reply channel was closed without a reply.
C25_GenerateKeyTotal ==
    \A t \in Callers :
        req_kind[t] = "generate_key"
            => /\ req_pc[t] # "panicked"
               /\ req_msgs[t] = req_calls[t]
               /\ req_pc[t] = "returned"
                     => \/ /\ req_recv[t] = "reply"
                           /\ req_ret[t] = [tag |-> "Some",
                                            key |-> << t, req_calls[t] >>]
                        \/ /\ req_recv[t] = "closed"
                           /\ req_ret[t] = [tag |-> "None", key |-> << >>]

\* one generate_key call got None from a dropped request, another got a key
C25_Witness ==
    /\ req_kind["thread1"] = "generate_key"
    /\ req_pc["thread1"] = "returned"
    /\ req_ret["thread1"].tag = "None"
    /\ req_kind["thread2"] = "generate_key"
    /\ req_pc["thread2"] = "returned"
    /\ req_ret["thread2"].tag = "Some"
====
